---------------------------- MODULE Spec2Model ----------------------------
(***************************************************************************)
(* A model of the COVID19_ABS agent based simulation: the agent and        *)
(* environment classes of ABClasses.py and the driver loop of simulate.py. *)
(*                                                                         *)
(* Numbers.  Every real of the program that lies in [0,1] (a viral load, a *)
(* bias, the attenuation, a uniform random draw) is an integer count of    *)
(* 1/Unit, Unit a power of two large enough that every load the model can  *)
(* reach is represented exactly.  Ages, travel energies and the            *)
(* asymptomatic timer use the same unit.  A location is a pair of integer  *)
(* grid steps: the program rounds every location to locationGranularity    *)
(* decimals, so location = steps / 10^locationGranularity.                 *)
(***************************************************************************)
EXTENDS Integers, Sequences, FiniteSets, TLC

VARIABLES
    population,   \* simulate.py: the list of agent objects
    landscape,    \* simulate.py: the environment object (viralMap included)
    pc,           \* the driver's position, or "api" when a client calls the classes directly
    a,            \* simulate.py:105, the index of the for loop over the population
    day,          \* number of iterations of the while loop started so far
    extraSteps,   \* simulate.py:100
    numInfected,  \* simulate.py:81,113
    numDead,      \* simulate.py:82,117
    envUpdates,   \* history: number of completed environment.update calls
    updated,      \* history: for each agent, the day of its latest agent.update call
    seeded,       \* history: an agent was infected or a load was put on the map from outside
    sickCalls,    \* history: for each agent, the agent.update calls it started alive and infected
    quietTicks,   \* history: the latest days in a row that ended with numInfected == 0
    last          \* history: the last call made, with the state it started from

vars == <<population, landscape, pc, a, day, extraSteps, numInfected, numDead,
          envUpdates, updated, seeded, sickCalls, quietTicks, last>>

---------------------------------------------------------------------------
(* Bounds of the model *)

\* Number of agents of a population (simulate.py:10 uses 250).
PopulationSize == 2

\* Days the driver loop is followed for, and (plus the seeding update) the
\* number of environment.update calls a run makes.
MaxTicks == 2

\* Days the driver loop is followed for when it is run to its exit: the
\* ExtraSteps days of the lagged exit and the days of the infections before.
MaxDays == 13

---------------------------------------------------------------------------
(* Fixed point arithmetic *)

\* AOE arguments of the environment constructor.
AOEs == {1}

\* Largest area of effect any modelled environment is built with.
MaxAOE == CHOOSE x \in AOEs : \A y \in AOEs : y <= x

\* Binary digits after the point: a deposit attenuation^(d/2) with d <= 2*AOE
\* needs 2*AOE of them, a cleanlinessBias of 1/2 one more, and each of the
\* MaxTicks+1 attenuations by 1/4 two more.
Precision == 2 * MaxAOE + 1 + 2 * (MaxTicks + 1)

Unit == 2 ^ Precision

Min(x, y) == IF x <= y THEN x ELSE y
Max(x, y) == IF x >= y THEN x ELSE y
Abs(x) == IF x < 0 THEN -x ELSE x

\* x * y for two reals counted in 1/Unit
Times(x, y) == (x * y) \div Unit

---------------------------------------------------------------------------
(* Inputs: the constructor arguments and the random draws that are followed *)

\* locationGranularity arguments; 10^granularity + 1 is the side of the grid.
Granularities == {1}

\* attenuation arguments: 1/4, whose square root 1/2 keeps attenuation^(d/2) exact.
Attenuations == {Unit \div 4}

\* np.random.rand() returns a value in [0,1): the smallest and the largest draw.
RandDraws == {0, Unit - 1}

\* Displacements (in grid steps) of np.random.normal around the location that
\* are followed when a client updates one agent
Displacements == {<<0, 0>>, <<1, 1>>, <<-1, -1>>}

\* and when the driver updates a whole population.
DriverDisplacements == {<<0, 0>>, <<1, 1>>}

\* Ages np.random draws are taken from: 20, 39.5, 45 and 85 years.
Ages == {20 * Unit, 39 * Unit + Unit \div 2, 45 * Unit, 85 * Unit}

\* Values of np.random.gamma(3, 2): half a day and a day and a half.
AsymptomaticTimes == {Unit \div 2, Unit + Unit \div 2}

---------------------------------------------------------------------------
(* ABClasses.py: age_distribution *)

\* The ages of `draws` age_distribution(mean) can return.  mean <= 0: an age
\* group g of 0..20 and 5*g + 4*rand, rand in [0,1).  Otherwise a normal
\* draw, redrawn until it lies in [0,104].
age_distribution(mean, draws) ==
    IF mean <= 0
    THEN {x \in draws : \E g \in 0..20 : 5 * g * Unit <= x /\ x < (5 * g + 4) * Unit}
    ELSE {x \in draws : ~(x < 0 \/ x > 104 * Unit)}

---------------------------------------------------------------------------
(* ABClasses.py: class agent *)

\* 10 ** locationGranularity
Scale(locationGranularity) == 10 ^ locationGranularity

\* location.round(locationGranularity) of a draw of np.random.random(2): any
\* grid point of the closed unit square.
UniformLocations(locationGranularity) ==
    (0..Scale(locationGranularity)) \X (0..Scale(locationGranularity))

\* np.random.rand() < gamma(12, scale=4.5).cdf(age): the cdf is 0 at age 0
\* and strictly between 0 and 1 at every other age of [0,104].
GammaTrial(age) == IF age <= 0 THEN {FALSE} ELSE {FALSE, TRUE}

\* initialLocationBias=None
None == <<>>

\* Lines 64-73: the initial locations, for the rounded draws `draws` of
\* np.random.random(2) or, with a bias, of np.random.normal(bias, ..): the
\* first lie in the unit square, the second are clamped into it.
InitialLocations(initialLocationBias, locationGranularity, draws) ==
    IF initialLocationBias = None
    THEN draws \cap UniformLocations(locationGranularity)
    ELSE { << Min(Max(l[1], 0), Scale(locationGranularity)),
              Min(Max(l[2], 0), Scale(locationGranularity)) >> : l \in draws }

\* The object agent.__init__ leaves for one outcome of its random draws.
NewAgent(ageBias, cleanlinessBias, socialDistanceBias, travelerBias, locationGranularity, initialLocationBias, age, location, pec, elderly, asym) ==
    [ ageBias              |-> ageBias,
      cleanlinessBias      |-> cleanlinessBias,
      socialDistanceBias   |-> socialDistanceBias,
      travelerBias         |-> travelerBias,
      travelerBiasO        |-> travelerBias,
      locationGranularity  |-> locationGranularity,
      initialLocationBias  |-> initialLocationBias,
      age                  |-> age,
      location             |-> location,
      preexistingCondition |-> pec,
      infected             |-> FALSE,
      symptomatic          |-> FALSE,
      alive                |-> TRUE,
      protected            |-> FALSE,
      infectionTime        |-> IF pec \/ elderly THEN 7 * 4 ELSE 7 * 2,
      infectionTimer       |-> IF pec \/ elderly THEN 7 * 4 ELSE 7 * 2,
      asymptomaticTime     |-> asym,
      asymptomaticTimer    |-> asym ]

\* The objects agent(...) can construct, one for each outcome of its draws:
\* the age, the location, the two gamma trials and the asymptomatic time.
agent(ageBias, cleanlinessBias, socialDistanceBias, travelerBias, locationGranularity, initialLocationBias, ageDraws, locationDraws, gammaDraws) ==
    UNION { { NewAgent(ageBias, cleanlinessBias, socialDistanceBias, travelerBias,
                       locationGranularity, initialLocationBias,
                       age, location, pec, elderly, asym) :
                location \in InitialLocations(initialLocationBias, locationGranularity,
                                             locationDraws),
                pec \in GammaTrial(age),
                elderly \in GammaTrial(age),
                asym \in gammaDraws } :
            age \in age_distribution(ageBias, ageDraws) }

\* NewLocations without the redraw of lines 133-136
NewLocationsUnchecked(self, displacements) ==
    { <<self.location[1] + d[1], self.location[2] + d[2]>> :
        d \in (IF self.travelerBias = 0 THEN {<<0, 0>>} ELSE displacements) }

\* newLocation of lines 130-136: a normal draw around the location, rounded,
\* redrawn until both coordinates lie strictly inside (0,1).  With a standard
\* deviation of 0 (travelerBias 0) every draw is the location itself.
NewLocations(self, displacements) ==
    LET scale == Scale(self.locationGranularity)
        draws == IF self.travelerBias = 0 THEN {<<0, 0>>} ELSE displacements
        all   == { <<self.location[1] + d[1], self.location[2] + d[2]>> : d \in draws }
    IN  { l \in all : 0 < l[1] /\ 0 < l[2] /\ l[1] < scale /\ l[2] < scale }

\* int(location * landscape.scale) for one coordinate.  The product is a
\* binary floating point number: at scale 100 the locations 0.29, 0.57 and
\* 0.58 give 28.99.., 56.99.. and 57.99.., which int() truncates.
GridIndex(steps, locationGranularity, scale) ==
    IF scale = Scale(locationGranularity)
    THEN IF scale = 100 /\ steps \in {29, 57, 58} THEN steps - 1 ELSE steps
    ELSE (steps * scale) \div Scale(locationGranularity)

\* i, j of lines 157 and 272
Cell(p, scale) ==
    << GridIndex(p.location[1], p.locationGranularity, scale),
       GridIndex(p.location[2], p.locationGranularity, scale) >>

\* viralMap[i, j] as numpy reads it: a negative index counts from the end.
Wrapped(ij, scale) ==
    << IF ij[1] < 0 THEN ij[1] + scale + 1 ELSE ij[1],
       IF ij[2] < 0 THEN ij[2] + scale + 1 ELSE ij[2] >>

\* Expose with <= for the < of line 159
ExposeInclusive(self, env, u) ==
    LET ij == Wrapped(Cell(self, env.scale), env.scale)
    IN  IF ij \notin DOMAIN env.viralMap THEN self
        ELSE IF u <= env.viralMap[ij] THEN [self EXCEPT !.infected = TRUE]
        ELSE self

\* Lines 153-161: the chance to become infected, u the draw of np.random.rand().
\* An index outside the matrix raises IndexError at line 159: update ends
\* there, with the move of line 149 made.
Expose(self, env, u) ==
    LET ij == Wrapped(Cell(self, env.scale), env.scale)
    IN  IF ij \notin DOMAIN env.viralMap THEN self
        ELSE IF u < env.viralMap[ij] THEN [self EXCEPT !.infected = TRUE]
        ELSE self

\* Lines 198-204, in thousandths
deathFactor(self) == IF self.preexistingCondition THEN 105 ELSE 0

\* Lines 209-231, in thousandths
ageFactor(self) ==
    IF self.age <= 39 * Unit THEN 2
    ELSE IF 40 * Unit <= self.age /\ self.age <= 49 * Unit THEN 4
    ELSE IF 50 * Unit <= self.age /\ self.age <= 59 * Unit THEN 13
    ELSE IF 60 * Unit <= self.age /\ self.age <= 69 * Unit THEN 36
    ELSE IF 70 * Unit <= self.age /\ self.age <= 79 * Unit THEN 80
    ELSE 148

\* Line 233: np.random.rand() >= (1 - max(ageFactor, deathFactor)) ** (1/infectionTime).
\* The root t lies in [0,1] and is 1 only for a factor of 0 and 0 only for a
\* factor of 1, and rand() ranges over [0,1): the test can succeed when t < 1
\* and can fail when t > 0.
DeathDraws(self) ==
    LET m == Max(ageFactor(self), deathFactor(self))
    IN  {d \in BOOLEAN : IF d THEN m > 0 ELSE m < 1000}

\* Sicken with the death test of line 233 made in the asymptomatic days too
SickenAtRisk(self, dies) ==
    IF self.asymptomaticTimer > 0
    THEN [self EXCEPT !.asymptomaticTimer = @ - Unit, !.alive = ~dies]
    ELSE IF self.infectionTimer - 1 = 0
         THEN [self EXCEPT !.infected = FALSE,
                           !.protected = TRUE,
                           !.infectionTimer = self.infectionTime,
                           !.asymptomaticTimer = self.asymptomaticTime,
                           !.travelerBias = self.travelerBiasO]
         ELSE [self EXCEPT !.travelerBias = Unit \div 2,
                           !.infectionTimer = @ - 1,
                           !.alive = ~dies]

\* Sicken with an infectionTimer that counts the asymptomatic days down as well
SickenOverlapped(self, dies) ==
    IF self.asymptomaticTimer > 0
    THEN [self EXCEPT !.asymptomaticTimer = @ - Unit, !.infectionTimer = @ - 1]
    ELSE IF self.infectionTimer - 1 = 0
         THEN [self EXCEPT !.infected = FALSE,
                           !.protected = TRUE,
                           !.infectionTimer = self.infectionTime,
                           !.asymptomaticTimer = self.asymptomaticTime,
                           !.travelerBias = self.travelerBiasO]
         ELSE [self EXCEPT !.travelerBias = Unit \div 2,
                           !.infectionTimer = @ - 1,
                           !.alive = ~dies]

\* Sicken without line 189, the travelerBias of a recovered agent left at .5
SickenUnrestored(self, dies) ==
    IF self.asymptomaticTimer > 0
    THEN [self EXCEPT !.asymptomaticTimer = @ - Unit]
    ELSE IF self.infectionTimer - 1 = 0
         THEN [self EXCEPT !.infected = FALSE,
                           !.protected = TRUE,
                           !.infectionTimer = self.infectionTime,
                           !.asymptomaticTimer = self.asymptomaticTime,
                           !.travelerBias = Unit \div 2]
         ELSE [self EXCEPT !.travelerBias = Unit \div 2,
                           !.infectionTimer = @ - 1,
                           !.alive = ~dies]

\* Sicken without line 187, the infectionTimer of a recovered agent left at 0
SickenNoReset(self, dies) ==
    IF self.asymptomaticTimer > 0
    THEN [self EXCEPT !.asymptomaticTimer = @ - Unit]
    ELSE IF self.infectionTimer - 1 = 0
         THEN [self EXCEPT !.infected = FALSE,
                           !.protected = TRUE,
                           !.infectionTimer = 0,
                           !.asymptomaticTimer = self.asymptomaticTime,
                           !.travelerBias = self.travelerBiasO]
         ELSE [self EXCEPT !.travelerBias = Unit \div 2,
                           !.infectionTimer = @ - 1,
                           !.alive = ~dies]

\* Sicken with line 188 misplaced: the asymptomaticTimer is reset on every
\* symptomatic day, so that a day of each kind follows the other
SickenRelapse(self, dies) ==
    IF self.asymptomaticTimer > 0
    THEN [self EXCEPT !.asymptomaticTimer = @ - Unit]
    ELSE IF self.infectionTimer - 1 = 0
         THEN [self EXCEPT !.infected = FALSE,
                           !.protected = TRUE,
                           !.infectionTimer = self.infectionTime,
                           !.asymptomaticTimer = self.asymptomaticTime,
                           !.travelerBias = self.travelerBiasO]
         ELSE [self EXCEPT !.travelerBias = Unit \div 2,
                           !.infectionTimer = @ - 1,
                           !.asymptomaticTimer = self.asymptomaticTime,
                           !.alive = ~dies]

\* Lines 164-235: an infected agent's day, dies the outcome of the test of line 233.
Sicken(self, dies) ==
    IF self.asymptomaticTimer > 0
    THEN [self EXCEPT !.asymptomaticTimer = @ - Unit]
    ELSE IF self.infectionTimer - 1 = 0
         THEN [self EXCEPT !.infected = FALSE,
                           !.protected = TRUE,
                           !.infectionTimer = self.infectionTime,
                           !.asymptomaticTimer = self.asymptomaticTime,
                           !.travelerBias = self.travelerBiasO]
         ELSE [self EXCEPT !.travelerBias = Unit \div 2,
                           !.infectionTimer = @ - 1,
                           !.alive = ~dies]

\* Health with an `if` for the `elif` of line 164: an agent infected at line
\* 161 goes on through the infected branch in the same call
HealthFallThrough(self, env, u, dies) ==
    IF ~self.infected /\ ~self.protected
    THEN LET exposed == Expose(self, env, u)
         IN  IF exposed.infected THEN Sicken(exposed, dies) ELSE exposed
    ELSE IF self.infected THEN Sicken(self, dies)
    ELSE self

\* Health without the test of self.protected at line 153
HealthUnprotected(self, env, u, dies) ==
    IF ~self.infected THEN Expose(self, env, u) ELSE Sicken(self, dies)

\* Lines 151-235: the health step of agent.update, after the move.
Health(self, env, u, dies) ==
    IF ~self.infected /\ ~self.protected THEN Expose(self, env, u)
    ELSE IF self.infected THEN Sicken(self, dies)
    ELSE self

\* update without the test of self.alive at line 107
updateDead(self, env, newLocation, u, dies) ==
    Health([self EXCEPT !.location = newLocation], env, u, dies)

\* agent.update(landscape, population), lines 104-235: the agent it leaves
\* when the move chosen is newLocation, the exposure draw is u and the death
\* test comes out as dies.  The candidates of the social distancing branch
\* (lines 116-124, 141-143) are drawn as the single candidate is, and the one
\* of lowest density is one of them: NewLocations holds every location either
\* branch can commit.
update(self, env, newLocation, u, dies) ==
    IF self.alive
    THEN Health([self EXCEPT !.location = newLocation], env, u, dies)
    ELSE self

\* The draws one call of self.update makes: the move, the exposure draw and
\* the outcome of the death test.  A dead agent draws nothing (line 107).
Draws(self, displacements) ==
    IF self.alive
    THEN NewLocations(self, displacements) \X RandDraws \X DeathDraws(self)
    ELSE {<<self.location, 0, FALSE>>}

\* The agents one call of self.update(landscape, population) can leave.
updates(self, env, displacements) ==
    { update(self, env, x[1], x[2], x[3]) : x \in Draws(self, displacements) }

---------------------------------------------------------------------------
(* ABClasses.py: class environment *)

\* The indices of viralMap, a (scale+1) x (scale+1) matrix
Grid(scale) == (0..scale) \X (0..scale)

\* environment.__init__, lines 248-259
environment(locationGranularity, attenuation, AOE) ==
    [ locationGranularity |-> locationGranularity,
      attenuation         |-> attenuation,
      AOE                 |-> AOE,
      scale               |-> Scale(locationGranularity),
      viralMap            |-> [c \in Grid(Scale(locationGranularity)) |-> 0] ]

\* The square roots of the attenuations that have an exact one
Root == [x \in Attenuations |-> CHOOSE r \in 0..Unit : r * r = x * Unit]

\* attenuation ** (d/2)
RECURSIVE Decay(_, _)
Decay(attenuation, d) ==
    IF d = 0 THEN Unit ELSE Times(Decay(attenuation, d - 1), Root[attenuation])

\* Block with a range that is one cell too wide on every side
BlockWide(i, j, AOE) == ((i - AOE - 1)..(i + AOE + 1)) \X ((j - AOE - 1)..(j + AOE + 1))

\* Line 275: product(range(i-AOE, i+AOE+1), range(j-AOE, j+AOE+1))
Block(i, j, AOE) == ((i - AOE)..(i + AOE)) \X ((j - AOE)..(j + AOE))

\* Contributes without the test of p.alive
ContributesDead(p) == p.infected \/ p.cleanlinessBias # 0

\* Line 268: the agents that change the map
Contributes(p) == p.alive /\ (p.infected \/ p.cleanlinessBias # 0)

\* Spread without the max(.., 0) of line 287
SpreadUnclamped(load, p, c, i, j, attenuation) ==
    LET d == Abs(c[1] - i) + Abs(c[2] - j)
    IN  Min(load + (IF p.infected THEN Decay(attenuation, d) ELSE 0), Unit)
           - Times(p.cleanlinessBias, Decay(attenuation, d))

\* Spread with a deposit that replaces the load of the cell instead of adding to it
SpreadOverwrite(load, p, c, i, j, attenuation) ==
    LET d         == Abs(c[1] - i) + Abs(c[2] - j)
        deposited == IF p.infected THEN Min(Decay(attenuation, d), Unit) ELSE load
    IN  Max(deposited - Times(p.cleanlinessBias, Decay(attenuation, d)), 0)

\* Lines 281-287: the load of cell c after agent p, standing on cell <<i, j>>,
\* has deposited on it and cleaned it.  p.infected multiplies as 0 or 1.
Spread(load, p, c, i, j, attenuation) ==
    LET d         == Abs(c[1] - i) + Abs(c[2] - j)
        deposited == Min(load + (IF p.infected THEN Decay(attenuation, d) ELSE 0), Unit)
    IN  Max(deposited - Times(p.cleanlinessBias, Decay(attenuation, d)), 0)

\* Lines 268-287: the map after the body of the loop has run for agent p
Visit(viralMap, p, env) ==
    IF Contributes(p)
    THEN LET ij == Cell(p, env.scale)
         IN  [c \in DOMAIN viralMap |->
                 IF c \in Block(ij[1], ij[2], env.AOE)
                 THEN Spread(viralMap[c], p, c, ij[1], ij[2], env.attenuation)
                 ELSE viralMap[c]]
    ELSE viralMap

\* Lines 265-287: the loop over the population, in the order of the list
RECURSIVE Visits(_, _, _)
Visits(viralMap, pop, env) ==
    IF pop = <<>> THEN viralMap
    ELSE Visits(Visit(viralMap, Head(pop), env), Tail(pop), env)

\* Line 290: viralMap *= attenuation
Attenuate(viralMap, attenuation) ==
    [c \in DOMAIN viralMap |-> Times(viralMap[c], attenuation)]

\* environmentUpdate with line 290 run before the loop over the agents
environmentUpdateDecayFirst(env, pop) ==
    [env EXCEPT !.viralMap = Visits(Attenuate(env.viralMap, env.attenuation), pop, env)]

\* environment.update(population), lines 262-290: the environment it leaves
environmentUpdate(env, pop) ==
    [env EXCEPT !.viralMap = Attenuate(Visits(env.viralMap, pop, env), env.attenuation)]

---------------------------------------------------------------------------
(* simulate.py: the driver *)

\* simulate.py:100
ExtraSteps == 10

\* The populations of n agents built from the objects of `agents`
Populations(agents, n) == [1..n -> agents]

\* Line 11: agent(ageBias=-1, cleanlinessBias=0*.5*rand, travelerBias=1.0+2.5*rand,
\* socialDistanceBias=0+0*rand): the agents of 45 years with a two week
\* illness, built next to the centre of the grid with a travelerBias of 1.
DriverAgents ==
    { p \in UNION { agent(-1, 0, 0, Unit, g, None, {45 * Unit}, {<<4, 4>>}, {Unit \div 2}) :
                    g \in Granularities } :
      p.infectionTime = 7 * 2 }

\* Line 14: environment(AOE=.., attenuation=..)
DriverLandscapes ==
    { environment(g, att, aoe) : g \in Granularities, att \in Attenuations, aoe \in AOEs }

\* The call made last: its name, the agent it was made on (0 for none) and
\* the population and the map it started from.
Call(op, who) ==
    [op |-> op, who |-> who, before |-> population, map |-> landscape.viralMap]

\* sickCalls after population[i].update: the call counts when it starts with
\* the agent alive and infected, and so goes through lines 164-235.
Counted(i) ==
    [sickCalls EXCEPT ![i] = IF population[i].alive /\ population[i].infected
                             THEN @ + 1 ELSE @]

\* Lines 10-14 and 81-101: the population and the landscape are built
Init ==
    /\ population \in Populations(DriverAgents, PopulationSize)
    /\ landscape \in DriverLandscapes
    /\ \A i \in 1..PopulationSize :
          population[i].locationGranularity = landscape.locationGranularity
    /\ pc = "seed"
    /\ a = 0
    /\ day = 0
    /\ extraSteps = ExtraSteps
    /\ numInfected = 0
    /\ numDead = 0
    /\ envUpdates = 0
    /\ updated = [i \in 1..PopulationSize |-> 0]
    /\ seeded = FALSE
    /\ sickCalls = [i \in 1..PopulationSize |-> 0]
    /\ quietTicks = 0
    /\ last = Call("none", 0)

\* Lines 77-82: the infection is seeded in the agent patient0
Seed ==
    /\ pc = "seed"
    /\ \E patient0 \in 1..Len(population) :
          /\ population' = [population EXCEPT
                 ![patient0].infected = TRUE,
                 ![patient0].cleanlinessBias = 0,
                 ![patient0].location = <<landscape.scale \div 2, landscape.scale \div 2>>]
          /\ last' = Call("seed", patient0)
    /\ numInfected' = 1
    /\ numDead' = 0
    /\ pc' = "first_update"
    /\ seeded' = TRUE
    /\ UNCHANGED <<landscape, a, day, extraSteps, envUpdates, updated, sickCalls,
                   quietTicks>>

\* Line 88: landscape.update(population), before the loop
FirstUpdate ==
    /\ pc = "first_update"
    /\ landscape' = environmentUpdate(landscape, population)
    /\ envUpdates' = envUpdates + 1
    /\ last' = Call("environment.update", 0)
    /\ pc' = "while"
    /\ UNCHANGED <<population, a, day, extraSteps, numInfected, numDead, updated,
                   seeded, sickCalls, quietTicks>>

\* Line 102: while numInfected or extraSteps; line 105 starts the for loop
While ==
    /\ pc = "while"
    /\ day < MaxTicks
    /\ IF numInfected # 0 \/ extraSteps # 0
       THEN pc' = "for" /\ a' = 1 /\ day' = day + 1
       ELSE pc' = "done" /\ UNCHANGED <<a, day>>
    /\ UNCHANGED <<population, landscape, extraSteps, numInfected, numDead,
                   envUpdates, updated, seeded, sickCalls, quietTicks, last>>

\* AfterAgent with landscape.update called inside the for loop
AfterAgentEager(i, n) == "landscape"

\* Line 105: where the driver goes after population[i].update
AfterAgent(i, n) == IF i = n THEN "landscape" ELSE "for"

\* Lines 105-107: population[a].update(landscape, population)
For ==
    /\ pc = "for"
    /\ a \in 1..Len(population)
    /\ \E next \in updates(population[a], landscape, DriverDisplacements) :
          population' = [population EXCEPT ![a] = next]
    /\ updated' = [updated EXCEPT ![a] = day]
    /\ sickCalls' = Counted(a)
    /\ last' = Call("agent.update", a)
    /\ pc' = AfterAgent(a, Len(population))
    /\ a' = IF pc' = "for" THEN a + 1 ELSE a
    /\ UNCHANGED <<landscape, day, extraSteps, numInfected, numDead, envUpdates,
                   seeded, quietTicks>>

\* sum([p.alive and p.infected for p in population]), line 113
CountInfected(pop) == Cardinality({i \in 1..Len(pop) : pop[i].alive /\ pop[i].infected})

\* sum([not p.alive for p in population]), line 117
CountDead(pop) == Cardinality({i \in 1..Len(pop) : ~pop[i].alive})

\* Lines 110-132: landscape.update(population), the statistics and the lagged exit
Landscape ==
    /\ pc = "landscape"
    /\ landscape' = environmentUpdate(landscape, population)
    /\ envUpdates' = envUpdates + 1
    /\ last' = Call("environment.update", 0)
    /\ numInfected' = CountInfected(population)
    /\ numDead' = CountDead(population)
    /\ extraSteps' = IF numInfected' = 0 THEN extraSteps - 1 ELSE extraSteps
    /\ pc' = IF numInfected' = 0 /\ extraSteps' = 0 THEN "done" ELSE "while"
    /\ quietTicks' = IF numInfected' = 0 THEN quietTicks + 1 ELSE 0
    /\ UNCHANGED <<population, a, day, updated, seeded, sickCalls>>

Next == Seed \/ FirstUpdate \/ While \/ For \/ Landscape

Spec == Init /\ [][Next]_vars

\* ---- the driver followed to the exit of its loop

\* The displacement followed in this run: every draw of np.random.normal
\* rounds to the location the agent is at.
RunDisplacements == {<<0, 0>>}

\* Line 102, followed for MaxDays days.  A load that has been attenuated on
\* more than MaxTicks + 1 days in a row falls below 1/Unit and is rounded down
\* to 0 by Times: this run leaves out the infections the program allows on
\* such a cell, and adds none (no load an agent reads is 1).
WhileRun ==
    /\ pc = "while"
    /\ day < MaxDays
    /\ IF numInfected # 0 \/ extraSteps # 0
       THEN pc' = "for" /\ a' = 1 /\ day' = day + 1
       ELSE pc' = "done" /\ UNCHANGED <<a, day>>
    /\ UNCHANGED <<population, landscape, extraSteps, numInfected, numDead,
                   envUpdates, updated, seeded, sickCalls, quietTicks, last>>

\* Lines 105-107, with the agents staying where they are
ForRun ==
    /\ pc = "for"
    /\ a \in 1..Len(population)
    /\ \E next \in updates(population[a], landscape, RunDisplacements) :
          population' = [population EXCEPT ![a] = next]
    /\ updated' = [updated EXCEPT ![a] = day]
    /\ sickCalls' = Counted(a)
    /\ last' = Call("agent.update", a)
    /\ pc' = AfterAgent(a, Len(population))
    /\ a' = IF pc' = "for" THEN a + 1 ELSE a
    /\ UNCHANGED <<landscape, day, extraSteps, numInfected, numDead, envUpdates,
                   seeded, quietTicks>>

SpecRun == Init /\ [][Seed \/ FirstUpdate \/ WhileRun \/ ForRun \/ Landscape]_vars

---------------------------------------------------------------------------
(* Clients that call the two classes directly, as a unit test of them does *)

\* Maps a client can set viralMap to: no load anywhere, and loads of 0, 1/4
\* and 1 side by side.
ZeroMap(scale) == [c \in Grid(scale) |-> 0]
MixedMap(scale) ==
    [c \in Grid(scale) |->
        CASE (c[1] + c[2]) % 3 = 0 -> 0
          [] (c[1] + c[2]) % 3 = 1 -> Unit \div 4
          [] OTHER -> Unit]

\* The landscapes a client can set up this way
ClientLandscapes ==
    UNION { { [env EXCEPT !.viralMap = m] : m \in {ZeroMap(env.scale), MixedMap(env.scale)} } :
            env \in DriverLandscapes }

\* What every client starts with: no driver statistics, no call made yet
ClientInit(position) ==
    /\ pc = position
    /\ a = 0
    /\ day = 0
    /\ extraSteps = ExtraSteps
    /\ numInfected = 0
    /\ numDead = 0
    /\ envUpdates = 0
    /\ updated = [i \in 1..PopulationSize |-> 0]
    /\ seeded = ((\E i \in 1..Len(population) : population[i].infected)
                 \/ (\E c \in DOMAIN landscape.viralMap : landscape.viralMap[c] # 0))
    /\ sickCalls = [i \in 1..PopulationSize |-> 0]
    /\ quietTicks = 0
    /\ last = Call("none", 0)

\* ---- one agent, updated again and again on a map that is left alone

\* agent(ageBias=-1, travelerBias=1 or 3), built on a corner of the unit
\* square, and agent(.., initialLocationBias=[1, 1]) with a draw outside of it
LoneAgents ==
    UNION { agent(-1, 0, 0, tb, g, None, {45 * Unit}, {<<0, 0>>, <<10, 10>>},
                  AsymptomaticTimes)
            \cup agent(-1, 0, 0, tb, g, <<10, 10>>, {45 * Unit}, {<<11, 12>>},
                       AsymptomaticTimes) :
            tb \in {Unit, 3 * Unit}, g \in Granularities }

InitAgent ==
    /\ population \in Populations(LoneAgents, 1)
    /\ landscape \in ClientLandscapes
    /\ population[1].locationGranularity = landscape.locationGranularity
    /\ ClientInit("agent.update")

\* population[i].update(landscape, population)
AgentUpdate ==
    /\ pc = "agent.update"
    /\ \E i \in 1..Len(population) :
          /\ \E next \in updates(population[i], landscape, Displacements) :
                population' = [population EXCEPT ![i] = next]
          /\ sickCalls' = Counted(i)
          /\ last' = Call("agent.update", i)
    /\ UNCHANGED <<landscape, pc, a, day, extraSteps, numInfected, numDead,
                   envUpdates, updated, seeded, quietTicks>>

SpecAgent == InitAgent /\ [][AgentUpdate]_vars

\* ---- a population that stands still, and a map updated again and again

\* population[i].infected = True, as simulate.py:78 sets it
Infect(p) == [p EXCEPT !.infected = TRUE]

\* The agent p has become after the asymptomatic days of its infection
RECURSIVE Incubate(_)
Incubate(p) == IF p.asymptomaticTimer > 0 THEN Incubate(Sicken(p, FALSE)) ELSE p

\* An agent that died on the first day it could
Died(p) == Sicken(Incubate(Infect(p)), TRUE)

\* Agents that clean or do not, on a corner, next to it and in the middle of
\* the grid: healthy, infected, and dead (where an update can have moved them).
StandingAgents ==
    LET built == { p \in UNION { agent(-1, cb, 0, Unit, g, None, {45 * Unit},
                                       {<<0, 0>>, <<1, 1>>, <<5, 5>>}, {Unit \div 2}) :
                                 cb \in {0, Unit \div 2}, g \in Granularities } :
                   p.infectionTime = 7 * 2 }
    IN  built \cup {Infect(p) : p \in built}
              \cup {Died(p) : p \in {q \in built : NewLocations(q, {<<0, 0>>}) # {}}}

InitEnv ==
    /\ population \in Populations(StandingAgents, PopulationSize)
    /\ landscape \in ClientLandscapes
    /\ \A i \in 1..PopulationSize :
          population[i].locationGranularity = landscape.locationGranularity
    /\ ClientInit("environment.update")

\* landscape.update(population)
EnvironmentUpdate ==
    /\ pc = "environment.update"
    /\ envUpdates <= MaxTicks
    /\ landscape' = environmentUpdate(landscape, population)
    /\ envUpdates' = envUpdates + 1
    /\ last' = Call("environment.update", 0)
    /\ UNCHANGED <<population, pc, a, day, extraSteps, numInfected, numDead,
                   updated, seeded, sickCalls, quietTicks>>

SpecEnv == InitEnv /\ [][EnvironmentUpdate]_vars

\* ---- the loop of simulate.py:102-132 run on a population no infection was seeded in

\* Agents that clean or do not, next to the centre of the grid
UnseededAgents ==
    { p \in UNION { agent(-1, cb, 0, Unit, g, None, {45 * Unit}, {<<4, 4>>}, {Unit \div 2}) :
                    cb \in {0, Unit \div 2}, g \in Granularities } :
      p.infectionTime = 7 * 2 }

InitTicks ==
    /\ population \in Populations(UnseededAgents, PopulationSize)
    /\ landscape \in ClientLandscapes
    /\ \A i \in 1..PopulationSize :
          population[i].locationGranularity = landscape.locationGranularity
    /\ ClientInit("while")

SpecTicks == InitTicks /\ [][While \/ For \/ Landscape]_vars

\* ---- one agent of any age, infected by its client and updated until the infection is over

\* agent(ageBias=-1) and agent(ageBias=40), built in the middle of the grid:
\* the first draws its age from the world's age groups, the second from a
\* normal distribution around 40 years.  Their asymptomatic times are half a
\* day, a day and a day and a half.
SickAgents ==
    UNION { agent(ageBias, 0, 0, Unit, g, None, Ages, {<<5, 5>>},
                  AsymptomaticTimes \cup {Unit}) :
            ageBias \in {0 - Unit, 40 * Unit}, g \in Granularities }

InitSick ==
    /\ population \in Populations({Infect(p) : p \in SickAgents}, 1)
    /\ landscape \in DriverLandscapes
    /\ population[1].locationGranularity = landscape.locationGranularity
    /\ ClientInit("agent.update")

SpecSick == InitSick /\ [][AgentUpdate]_vars

\* ---- objects built with any arguments

\* Arguments for a bias: below its range, its ends, and above it
BiasArguments == {0 - Unit \div 2, 0, Unit, 2 * Unit}

\* Arguments for the attenuation
AttenuationArguments == {0 - Unit \div 4, 0, Unit \div 4, Unit, 2 * Unit}

InitConstruct ==
    /\ population = <<>>
    /\ landscape \in { environment(g, att, aoe) :
                         g \in Granularities, att \in AttenuationArguments, aoe \in AOEs }
    /\ ClientInit("agent")

\* population = [agent(...)]
Construct ==
    /\ pc = "agent"
    /\ \E cb \in BiasArguments, sdb \in BiasArguments, tb \in BiasArguments :
          \E p \in agent(-1, cb, sdb, tb, landscape.locationGranularity, None,
                         {45 * Unit}, {<<4, 4>>}, {Unit \div 2}) :
             population' = <<p>>
    /\ last' = [Call("agent", 1) EXCEPT !.before = <<>>]
    /\ UNCHANGED <<landscape, pc, a, day, extraSteps, numInfected, numDead,
                   envUpdates, updated, seeded, sickCalls, quietTicks>>

SpecConstruct == InitConstruct /\ [][Construct]_vars

---------------------------------------------------------------------------
(* The claims *)

\* The agent the last agent.update call was made on, before and after it
Called == last.op = "agent.update"
Before == last.before[last.who]
After == population[last.who]

\* C1: once alive is false, agent.update changes nothing of the agent: its
\* location, flags, timers and travelerBias are those it had before the call,
\* and alive stays false.
C1_DeadAgentUnchanged ==
    (Called /\ ~Before.alive) => (After = Before /\ ~After.alive)

\* C1 witness: a dead agent has been updated.
C1_Witness == Called /\ ~Before.alive /\ Before.infected

\* C2: agent.update never infects a protected agent, whatever the load of
\* the cell it stands on and whatever is drawn, and leaves it protected.
C2_ProtectedStays ==
    /\ \A i \in 1..Len(population) : ~(population[i].protected /\ population[i].infected)
    /\ (Called /\ Before.protected) => (After.protected /\ ~After.infected)

\* C2 witness: a protected agent has been updated on a cell of load 1.
C2_Witness ==
    /\ Called /\ Before.protected /\ After.alive
    /\ landscape.viralMap[Cell(After, landscape.scale)] = Unit

\* C3: after construction and after every agent.update both coordinates of
\* every location lie in [0,1], and the grid index of the location is an
\* index of viralMap.
C3_LocationInGrid ==
    \A i \in 1..Len(population) :
        LET p == population[i]
        IN  /\ \A k \in 1..2 : 0 <= p.location[k]
                                /\ p.location[k] <= Scale(p.locationGranularity)
            /\ Cell(p, landscape.scale) \in Grid(landscape.scale)
            /\ Cell(p, landscape.scale) \in DOMAIN landscape.viralMap

\* C3 witness: an agent built with a location bias, from a draw outside
\* the unit square, has been updated next to the border and has moved.
C3_Witness ==
    /\ Called /\ Before.alive
    /\ Before.initialLocationBias # None
    /\ Before.location = <<landscape.scale - 1, landscape.scale - 1>>
    /\ After.location # Before.location

---------------------------------------------------------------------------
(* Claims about environment.update *)

\* The population and the environment the last environment.update call started from
Updated == last.op = "environment.update"
Prior == [landscape EXCEPT !.viralMap = last.map]

Taxicab(c, ij) == Abs(c[1] - ij[1]) + Abs(c[2] - ij[2])
Chebyshev(c, ij) == Max(Abs(c[1] - ij[1]), Abs(c[2] - ij[2]))

\* The agents of pop that change the map, by line 268
Contributors(pop) == {i \in 1..Len(pop) : Contributes(pop[i])}

\* C4: after every environment.update every cell of viralMap holds a value
\* in [0,1].
C4_LoadInUnitInterval ==
    \A c \in DOMAIN landscape.viralMap :
        0 <= landscape.viralMap[c] /\ landscape.viralMap[c] <= Unit

\* C4 witness: the update has run where both clamps of lines 286-287 act: an
\* infected agent stood on a cell of load 1 and a cleaning one on a cell of load 0.
C4_Witness ==
    /\ Updated
    /\ \E i \in Contributors(last.before) :
          last.before[i].infected /\ last.map[Cell(last.before[i], landscape.scale)] = Unit
    /\ \E i \in Contributors(last.before) :
          /\ ~last.before[i].infected
          /\ last.map[Cell(last.before[i], landscape.scale)] = 0

\* C5 as claimed: a cell at a taxicab distance above AOE from every agent
\* that changes the map is only attenuated.
C5_TaxicabFrame ==
    Updated =>
       \A c \in DOMAIN landscape.viralMap :
          (\A i \in Contributors(last.before) :
              Taxicab(c, Cell(last.before[i], landscape.scale)) > landscape.AOE)
          => landscape.viralMap[c] = Times(last.map[c], landscape.attenuation)

\* C5 as amended: an agent changes the load only of the cells of the square
\* block around its cell, those whose row and column both differ by at most
\* AOE; every cell of the block, up to a taxicab distance of 2*AOE, gets the
\* deposit attenuation^(d/2) of an infected agent.
C5_BlockFrame ==
    Updated =>
       /\ \A c \in DOMAIN landscape.viralMap :
             (\A i \in Contributors(last.before) :
                 Chebyshev(c, Cell(last.before[i], landscape.scale)) > landscape.AOE)
             => landscape.viralMap[c] = Times(last.map[c], landscape.attenuation)
       /\ (\A i \in Contributors(last.before) : last.before[i].cleanlinessBias = 0)
          => \A i \in Contributors(last.before), c \in DOMAIN landscape.viralMap :
                Chebyshev(c, Cell(last.before[i], landscape.scale)) <= landscape.AOE
                => landscape.viralMap[c] >=
                      Times(Decay(landscape.attenuation,
                                  Taxicab(c, Cell(last.before[i], landscape.scale))),
                            landscape.attenuation)

\* C5 witness: one infected agent on cell (0,0) of a map without load has been
\* visited: cell (1,1), at taxicab distance 2, holds a load and cell (2,2) none.
C5_Witness ==
    /\ Updated
    /\ landscape.AOE = 1
    /\ \A c \in DOMAIN last.map : last.map[c] = 0
    /\ \E i \in Contributors(last.before) :
          /\ Contributors(last.before) = {i}
          /\ last.before[i].infected
          /\ Cell(last.before[i], landscape.scale) = <<0, 0>>
    /\ landscape.viralMap[<<1, 1>>] > 0
    /\ landscape.viralMap[<<2, 2>>] = 0

\* The orders of a population of n agents
Orders(n) == {f \in [1..n -> 1..n] : \A i, j \in 1..n : f[i] = f[j] => i = j}
Reorder(pop, f) == [i \in 1..Len(pop) |-> pop[f[i]]]

\* The map environment.update leaves is the one it leaves for the population in the order f
SameAsInOrder(f) ==
    landscape.viralMap = environmentUpdate(Prior, Reorder(last.before, f)).viralMap

\* C6 as claimed: the map environment.update leaves is the same for every
\* order of the agents of the population.
C6_OrderIndependent ==
    Updated => \A f \in Orders(Len(last.before)) : SameAsInOrder(f)

\* Two agents whose blocks share a cell of the grid
Overlap(p, q, env) ==
    \E c \in Grid(env.scale) :
        /\ Chebyshev(c, Cell(p, env.scale)) <= env.AOE
        /\ Chebyshev(c, Cell(q, env.scale)) <= env.AOE

\* C6 as amended: the map is the same for every order, up to the rounding of
\* floating-point sums, when any two agents that change the map and whose
\* blocks share a cell either both clean nothing or are both not infected.
C6_OrderIndependentUnmixed ==
    (/\ Updated
     /\ \A i, j \in Contributors(last.before) :
           (i # j /\ Overlap(last.before[i], last.before[j], landscape))
           => \/ last.before[i].cleanlinessBias = 0 /\ last.before[j].cleanlinessBias = 0
              \/ ~last.before[i].infected /\ ~last.before[j].infected)
    => \A f \in Orders(Len(last.before)) : SameAsInOrder(f)

\* C6 witness: two infected agents that clean nothing have been visited on
\* different cells with blocks that overlap, where their deposits exceed 1.
C6_Witness ==
    /\ Updated
    /\ \E i, j \in Contributors(last.before) :
          /\ i # j
          /\ Overlap(last.before[i], last.before[j], landscape)
          /\ last.before[i].infected /\ last.before[j].infected
          /\ last.before[i].cleanlinessBias = 0 /\ last.before[j].cleanlinessBias = 0
          /\ Cell(last.before[i], landscape.scale) # Cell(last.before[j], landscape.scale)
          /\ landscape.viralMap[Cell(last.before[i], landscape.scale)]
                = Times(Unit, landscape.attenuation)

---------------------------------------------------------------------------
(* Claims about the infection and the driver *)

\* C7: an agent that is neither infected nor protected and whose cell after
\* the move has load 0 is not infected by agent.update, whatever the other
\* agents are; and from a map without load and a population without an
\* infected agent nobody is ever infected and the map keeps no load.
C7_InfectionOnlyFromMap ==
    /\ (/\ Called /\ ~Before.infected /\ ~Before.protected
        /\ landscape.viralMap[Cell(After, landscape.scale)] = 0)
       => ~After.infected
    /\ ~seeded =>
          /\ \A i \in 1..Len(population) : ~population[i].infected
          /\ \A c \in DOMAIN landscape.viralMap : landscape.viralMap[c] = 0

\* C7 witness: a susceptible agent has been updated onto a cell of load 0
\* while another agent was infected and other cells held a load.
C7_Witness ==
    /\ Called /\ ~Before.infected /\ ~Before.protected
    /\ landscape.viralMap[Cell(After, landscape.scale)] = 0
    /\ After.location # Before.location
    /\ \E i \in 1..Len(population) : population[i].infected /\ population[i].alive
    /\ \E c \in DOMAIN landscape.viralMap : landscape.viralMap[c] > 0

\* C8 as claimed: between two days the symptomatic flag of an agent is true
\* exactly when the agent is infected and its asymptomatic timer is <= 0.
C8_SymptomaticDerived ==
    pc = "while" =>
       \A i \in 1..Len(population) :
          population[i].symptomatic
             = (population[i].infected /\ population[i].asymptomaticTimer <= 0)

\* C9 as claimed: no agent holds a cleanlinessBias or socialDistanceBias
\* outside [0,1] or a negative travelerBias, and no environment an
\* attenuation outside (0,1).
C9_ArgumentsInRange ==
    /\ \A i \in 1..Len(population) :
          /\ 0 <= population[i].cleanlinessBias /\ population[i].cleanlinessBias <= Unit
          /\ 0 <= population[i].socialDistanceBias /\ population[i].socialDistanceBias <= Unit
          /\ 0 <= population[i].travelerBias
    /\ 0 < landscape.attenuation /\ landscape.attenuation < Unit

\* The agents and the environment have been called in the order the claim gives
InOrder ==
    /\ pc = "for" =>
          /\ envUpdates = day
          /\ \A i \in 1..Len(population) : updated[i] = IF i < a THEN day ELSE day - 1
    /\ pc = "landscape" =>
          /\ envUpdates = day
          /\ \A i \in 1..Len(population) : updated[i] = day
    /\ pc \in {"while", "done"} =>
          /\ envUpdates = day + 1
          /\ \A i \in 1..Len(population) : updated[i] = day

\* C10: on each day agent.update is called for every agent, in the order of
\* the population, and then environment.update once; the agents of day t are
\* updated on the map the environment.update of day t-1 left (the call of
\* line 88 for day 1), which no call changes while they are.
C10_AgentsThenLandscape ==
    /\ []InOrder
    /\ [][pc = "for" => landscape' = landscape]_vars

\* C10 witness: on day 2 the last agent of the population has been updated
\* on a cell that holds a load left by the environment.update of day 1.
C10_Witness ==
    /\ pc = "landscape" /\ day = 2
    /\ Called /\ last.who = Len(population)
    /\ ~Before.infected
    /\ landscape.viralMap[Cell(After, landscape.scale)] > 0

---------------------------------------------------------------------------
(* Claims about the course of an infection *)

\* The last agent.update call went through the symptomatic branch, lines 172-235
Symptomatic(p) == p.alive /\ p.infected /\ p.asymptomaticTimer <= 0

\* C11 as claimed: an agent that has gone through a symptomatic update and
\* has not recovered holds a travelerBias of half its original travelerBiasO.
C11_HalfOfOriginal ==
    (Called /\ Symptomatic(Before) /\ After.infected)
    => 2 * After.travelerBias = After.travelerBiasO

\* The mortality rate of the table, in thousandths: 0.2% below the forties,
\* 0.4% for the forties, 1.3% for the fifties, 3.6% for the sixties, 8% for
\* the seventies and 14.8% from 80 years on.
MortalityTable(age) ==
    IF age < 40 * Unit THEN 2
    ELSE IF age < 50 * Unit THEN 4
    ELSE IF age < 60 * Unit THEN 13
    ELSE IF age < 70 * Unit THEN 36
    ELSE IF age < 80 * Unit THEN 80
    ELSE 148

\* C12 as claimed: the age based rate of a death check is the one of the
\* table, for every age, and is 14.8% for no agent younger than 80.
C12_MortalityByAge ==
    (Called /\ Symptomatic(Before) /\ After.infected)
    => /\ ageFactor(Before) = MortalityTable(Before.age)
       /\ Before.age < 80 * Unit => ageFactor(Before) < 148

\* C13: an agent dies only in an update it starts infected with its
\* asymptomatic timer at or below 0, and that does not end its infection: it
\* does not die while susceptible or protected, in an asymptomatic update, in
\* the update that infects it or in the update in which it recovers; and
\* only a susceptible agent becomes infected, only a symptomatic one protected.
C13_DiesOnlySymptomatic ==
    /\ (Called /\ Before.alive /\ ~After.alive)
       => (Symptomatic(Before) /\ ~Before.protected /\ After.infected /\ ~After.protected)
    /\ (Called /\ ~Before.infected /\ After.infected) => ~Before.protected
    /\ (Called /\ ~Before.protected /\ After.protected) => Symptomatic(Before)
    /\ \A i \in 1..Len(population) :
          ~population[i].alive
          => (population[i].infected /\ population[i].asymptomaticTimer <= 0)

\* C13 witness: an agent has died in an update it started symptomatic.
C13_Witness ==
    /\ Called /\ Symptomatic(Before) /\ ~After.alive
    /\ sickCalls[last.who] > 1

\* The number of days an asymptomatic timer set to x stays above 0
Ceil(x) == (x + Unit - 1) \div Unit

\* C14 as claimed: an agent that recovers has spent infectionTime update
\* calls infected, its asymptomatic ones included.
C14_TotalInfectionTime ==
    (Called /\ Before.infected /\ ~After.infected)
    => sickCalls[last.who] = Before.infectionTime

\* C14 as amended: the symptomatic phase counts the whole of infectionTime
\* down, after the asymptomatic phase: an agent that recovers has spent
\* ceil(asymptomaticTime) + infectionTime update calls infected.
C14_TotalAfterAsymptomatic ==
    (Called /\ Before.infected /\ ~After.infected)
    => sickCalls[last.who] = Ceil(Before.asymptomaticTime) + Before.infectionTime

\* C14 witness: an agent with a two week infection and an asymptomaticTime of
\* half a day recovers in its 15th update as an infected agent.
C14_Witness ==
    /\ Called /\ Before.infected /\ ~After.infected
    /\ Before.infectionTime = 7 * 2 /\ Before.asymptomaticTime = Unit \div 2
    /\ sickCalls[last.who] = 15

\* C15: the update that decrements the infection timer to 0 leaves the agent
\* recovered: not infected, protected, alive, with both timers and the
\* travelerBias back at their original values, and nothing else changed but
\* the location.
C15_Recovery ==
    (Called /\ Symptomatic(Before) /\ Before.infectionTimer = 1)
    => /\ After.alive /\ ~After.infected /\ After.protected
       /\ After = [Before EXCEPT !.location = After.location,
                                 !.infected = FALSE,
                                 !.protected = TRUE,
                                 !.infectionTimer = Before.infectionTime,
                                 !.asymptomaticTimer = Before.asymptomaticTime,
                                 !.travelerBias = Before.travelerBiasO]

\* C15 witness: an agent built with a travelerBias of 3 has recovered.
C15_Witness ==
    /\ Called /\ Symptomatic(Before) /\ Before.infectionTimer = 1
    /\ Before.travelerBiasO = 3 * Unit /\ Before.travelerBias = Unit \div 2
    /\ After.travelerBias = 3 * Unit

\* C16: the update that infects an agent changes nothing else of it but its
\* location: timers, travelerBias, protected and alive keep their values.
C16_InfectionOnly ==
    (Called /\ ~Before.infected /\ After.infected)
    => After = [Before EXCEPT !.location = After.location, !.infected = TRUE]

\* C16 witness: a susceptible agent has moved onto a cell of load 1/4 and has
\* become infected there.
C16_Witness ==
    /\ Called /\ ~Before.infected /\ After.infected
    /\ After.location # Before.location
    /\ landscape.viralMap[Cell(After, landscape.scale)] = Unit \div 4

\* An agent that is dead, or neither infected nor cleaning
Idle(p) == ~p.alive \/ (~p.infected /\ p.cleanlinessBias = 0)

\* C17: environment.update called with a population of dead agents and of
\* living agents that are not infected and do not clean leaves the previous
\* map multiplied by attenuation.
C17_OnlyLivingContribute ==
    (Updated /\ \A i \in 1..Len(last.before) : Idle(last.before[i]))
    => landscape.viralMap = Attenuate(last.map, landscape.attenuation)

\* C17 witness: a map with load on it has been updated with an agent that
\* died infected and a living agent that is neither infected nor cleaning.
C17_Witness ==
    /\ Updated
    /\ \A i \in 1..Len(last.before) : Idle(last.before[i])
    /\ \E i \in 1..Len(last.before) :
          /\ ~last.before[i].alive /\ last.before[i].infected
          /\ last.map[Cell(last.before[i], landscape.scale)] = Unit \div 4
    /\ \E i \in 1..Len(last.before) : last.before[i].alive
    /\ \E c \in DOMAIN landscape.viralMap : landscape.viralMap[c] > 0

\* C18: between two update calls the infection timer of every agent lies in
\* 1..infectionTime, and is infectionTime when the agent is not infected.
C18_InfectionTimerRange ==
    \A i \in 1..Len(population) :
        /\ 1 <= population[i].infectionTimer
        /\ population[i].infectionTimer <= population[i].infectionTime
        /\ ~population[i].infected
           => population[i].infectionTimer = population[i].infectionTime

\* C18 witness: an agent has recovered from a timer of 1, and its timer is
\* infectionTime again.
C18_Witness ==
    /\ Called /\ Before.infected /\ Before.infectionTimer = 1
    /\ ~After.infected /\ After.infectionTimer = 7 * 4

\* C20: an agent that is alive and infected has made fewer than
\* ceil(asymptomaticTime) + infectionTime update calls since it was infected:
\* by the call of that number it is dead or recovered and protected.
C20_InfectionResolves ==
    \A i \in 1..Len(population) :
        LET p == population[i]
        IN  /\ sickCalls[i] <= Ceil(p.asymptomaticTime) + p.infectionTime
            /\ (p.alive /\ p.infected)
               => sickCalls[i] < Ceil(p.asymptomaticTime) + p.infectionTime
            /\ sickCalls[i] = Ceil(p.asymptomaticTime) + p.infectionTime
               => (~p.alive \/ (~p.infected /\ p.protected))

\* C20 witness: an agent with an asymptomaticTime of one day and a four week
\* infection is recovered and protected after 29 update calls.
C20_Witness ==
    \E i \in 1..Len(population) :
        /\ population[i].protected /\ ~population[i].infected
        /\ population[i].asymptomaticTime = Unit
        /\ sickCalls[i] = 29

\* C19 as claimed: the loop does not exit while a living agent is infected,
\* and when it exits each of the last ExtraSteps days has ended with no
\* living infected agent.
C19_TenQuietDays ==
    pc = "done" => (CountInfected(population) = 0 /\ quietTicks >= ExtraSteps)

\* C21: after every environment.update every cell of viralMap holds at most
\* attenuation, which is below 1; every agent.update of the driver reads a
\* map an environment.update has left, so the load it reads is below 1 and
\* the largest draw of np.random.rand() leaves the agent uninfected.
C21_LoadAtMostAttenuation ==
    /\ landscape.attenuation < Unit
    /\ envUpdates >= 1
       => \A c \in DOMAIN landscape.viralMap :
             landscape.viralMap[c] <= landscape.attenuation
    /\ Called
       => /\ envUpdates >= 1
          /\ last.map = landscape.viralMap
          /\ last.map[Cell(After, landscape.scale)] <= landscape.attenuation
          /\ last.map[Cell(After, landscape.scale)] < Unit
          /\ (Before.alive /\ ~Before.infected /\ ~Before.protected)
             => ~Expose([Before EXCEPT !.location = After.location],
                        landscape, Unit - 1).infected

\* C21 witness: a susceptible agent has been updated onto the cell patient0
\* stands on, whose load is attenuation exactly, and has stayed uninfected.
C21_Witness ==
    /\ Called /\ Before.alive /\ ~Before.infected /\ ~Before.protected
    /\ After.location # Before.location
    /\ last.map[Cell(After, landscape.scale)] = landscape.attenuation
    /\ ~After.infected

============================================================================
